---- MODULE Spec2Model ----
(***************************************************************************)
(* Salary prediction service of the SimpleLinearRegression repository:     *)
(*   src/app.py          plain linear regression endpoint  (POST /predict) *)
(*   src/PLR/app.py      polynomial regression endpoint    (POST /predict) *)
(*   src/PLR/app_ui.py   tkinter form over the same model and transformer  *)
(* The model follows the startup code (artifact loading), the two request  *)
(* handlers statement by statement, and the form's change callback.        *)
(***************************************************************************)
EXTENDS Integers, Sequences, FiniteSets, TLC

VARIABLES
  app,             \* which program the process runs: "plain", "plr" or "ui"
  phase,           \* "load_model", "load_poly", "serving" or "exited"
  model, poly,     \* the module globals the pickles are loaded into
  req, resp,       \* the request last answered and its response
  calls,           \* the capabilities the last handler invoked, in order
  prediction,      \* the local `prediction` of the last handler
  nfail,           \* failed requests so far
  experience_var, salary_label, status_label,    \* the form
  frames           \* the frames of the requests executing concurrently

vars == <<app, phase, model, poly, req, resp, calls, prediction, nfail,
          experience_var, salary_label, status_label, frames>>

(***************************************************************************)
(* Bounds of the model.                                                    *)
(***************************************************************************)
\* Largest finite magnitude of the modelled float type: a double overflows to
\* an infinity beyond its largest finite value, here beyond FloatMax.
FloatMax == 20
\* Longest "data" list of an envelope payload.
MaxItems == 2
\* The count of failed requests saturates here.
MaxFail == 2
\* Requests executing concurrently in the threaded server (SpecConc).
NReq == 2

(***************************************************************************)
(* Floats: the finite values -FloatMax..FloatMax and the three non-finite  *)
(* values.  Arithmetic overflows to an infinity, as IEEE doubles do.       *)
(***************************************************************************)
PInf == FloatMax + 1
NInf == -(FloatMax + 1)
NaN == FloatMax + 2
\* Marks a string that float() cannot parse.
Unparsable == FloatMax + 3

Finite == (-FloatMax)..FloatMax
IsFinite(a) == a \in Finite

FRound(n) == IF n > FloatMax THEN PInf ELSE IF n < -FloatMax THEN NInf ELSE n

FSign(a) == IF a > 0 THEN 1 ELSE IF a < 0 THEN -1 ELSE 0

FMul(a, b) ==
  IF a = NaN \/ b = NaN THEN NaN
  ELSE IF IsFinite(a) /\ IsFinite(b) THEN FRound(a * b)
  ELSE IF a = 0 \/ b = 0 THEN NaN
  ELSE IF FSign(a) * FSign(b) > 0 THEN PInf ELSE NInf

FAdd(a, b) ==
  IF a = NaN \/ b = NaN THEN NaN
  ELSE IF IsFinite(a) /\ IsFinite(b) THEN FRound(a + b)
  ELSE IF IsFinite(a) THEN b
  ELSE IF IsFinite(b) THEN a
  ELSE IF a = b THEN a ELSE NaN

RECURSIVE FPow(_, _)
FPow(x, k) == IF k = 0 THEN 1 ELSE FMul(FPow(x, k - 1), x)

(***************************************************************************)
(* JSON values found under the key YearsExperience.                        *)
(***************************************************************************)
Num(v) == [t |-> "num", v |-> v]
\* A string is known by what float() makes of it.
Str(v) == [t |-> "str", v |-> v]
Null == [t |-> "null", v |-> 0]
List == [t |-> "list", v |-> 0]
Absent == [t |-> "absent", v |-> 0]

\* Results of operations that may raise: a value, or an exception type.
Ok(v) == [ok |-> TRUE, exc |-> "none", val |-> v]
Raise(e) == [ok |-> FALSE, exc |-> e, val |-> 0]

\* float(value): a number converts to itself, a string to what it parses to
\* ("nan" and "inf" parse), an unparsable string raises ValueError, and None
\* or a list raises TypeError.
PyFloat(value) ==
  CASE value.t = "num" -> Ok(value.v)
    [] value.t = "str" -> IF value.v = Unparsable THEN Raise("ValueError") ELSE Ok(value.v)
    [] OTHER -> Raise("TypeError")

(***************************************************************************)
(* The pickled artifacts.  poly is a fitted PolynomialFeatures (number of  *)
(* input features seen in fit, degree); model is a fitted LinearRegression *)
(* (intercept_, coef_, number of targets).                                 *)
(***************************************************************************)
NoArtifact == [kind |-> "none"]

PolyArtifacts ==
  { [kind |-> "poly", n_in |-> 1, degree |-> 2],
    [kind |-> "poly", n_in |-> 1, degree |-> 1],
    [kind |-> "poly", n_in |-> 2, degree |-> 2] }

ModelArtifacts ==
  { [kind |-> "model", intercept |-> 10, coef |-> <<0, 2, 1>>, targets |-> 1],
    [kind |-> "model", intercept |-> 0, coef |-> <<0, FloatMax, -FloatMax>>, targets |-> 1],
    [kind |-> "model", intercept |-> 10, coef |-> <<0, 2, 1>>, targets |-> 2],
    [kind |-> "model", intercept |-> 2, coef |-> <<0, 3>>, targets |-> 1],
    [kind |-> "model", intercept |-> 2, coef |-> <<3>>, targets |-> 1],
    [kind |-> "model", intercept |-> 2, coef |-> <<3>>, targets |-> 2] }

\* numpy arrays of one row: the dtype numpy gives them and the row.
FloatArr(row) == [dtype |-> "float", row |-> row]

\* np.array([[experience]]) without a dtype, on a raw JSON value.
NpArray(value) ==
  CASE value.t = "num" -> FloatArr(<<value.v>>)
    [] value.t = "str" -> [dtype |-> "str", row |-> <<0>>]
    [] OTHER -> [dtype |-> "object", row |-> <<0>>]

AllFinite(row) == \A i \in 1..Len(row) : IsFinite(row[i])

\* The input validation both estimators run before they compute: a numeric
\* dtype, finite entries, and the number of features seen in fit.
CheckArray(arr, n_features) ==
  IF arr.dtype = "object" THEN Raise("TypeError")
  ELSE IF arr.dtype # "float" THEN Raise("ValueError")
  ELSE IF ~AllFinite(arr.row) THEN Raise("ValueError")
  ELSE IF Len(arr.row) # n_features THEN Raise("ValueError")
  ELSE Ok(arr.row)

\* poly.transform(input_arr): the row <<1, x, ..., x^degree>>; the powers are
\* not validated after they are computed.
Transform(p, arr) ==
  LET chk == CheckArray(arr, p.n_in)
  IN IF ~chk.ok THEN chk
     ELSE Ok(FloatArr([k \in 1..(p.degree + 1) |-> FPow(arr.row[1], k - 1)]))

RECURSIVE Dot(_, _, _)
Dot(coef, row, n) ==
  IF n = 0 THEN 0 ELSE FAdd(Dot(coef, row, n - 1), FMul(coef[n], row[n]))

\* model.predict(X)[0]: a scalar for a single-target model, a vector of
\* targets otherwise.  The output is not validated.
ModelPredict(m, arr) ==
  LET chk == CheckArray(arr, Len(m.coef))
  IN IF ~chk.ok THEN chk
     ELSE Ok([set |-> TRUE, scalar |-> m.targets = 1,
              v |-> FAdd(Dot(m.coef, arr.row, Len(m.coef)), m.intercept)])

\* The local `prediction` before it is assigned.
NoPrediction == [set |-> FALSE, scalar |-> TRUE, v |-> 0]

\* Variant: the coercion also rejects a non-finite value.
NpFloatFinite(pr) ==
  IF ~pr.scalar THEN Raise("TypeError")
  ELSE IF ~IsFinite(pr.v) THEN Raise("ValueError")
  ELSE Ok(pr.v)

\* float(prediction): numpy converts only a scalar (or size-1 array).
NpFloat(pr) ==
  IF pr.scalar THEN Ok(pr.v) ELSE Raise("TypeError")

(***************************************************************************)
(* Request payloads, as request.get_json() finds them.                     *)
(*   t = "bad"     get_json raises (malformed body, wrong content type)    *)
(*   t = "none"    get_json returns None                                   *)
(*   t = "scalar"  JSON that is no object (a number)                       *)
(*   t = "map"     a JSON object: ye is the value under YearsExperience,   *)
(*                 data the value under "data"                             *)
(***************************************************************************)
NoData == [t |-> "absent", items |-> <<>>]
NonListData == [t |-> "nonlist", items |-> <<>>]
ListData(items) == [t |-> "list", items |-> items]

Payload(t, ye, data) == [t |-> t, ye |-> ye, data |-> data]
\* An element of a "data" list.
Elem(t, ye) == [t |-> t, ye |-> ye]

NoPayload == Payload("absent", Absent, NoData)

(***************************************************************************)
(* Responses: jsonify(...) and the status code.                            *)
(*   kind "success"  {'YearsExperience': ye, 'PredictedSalary': ps}, 200   *)
(*   other kinds     {'error': message}; exc and arg are the exception the *)
(*                   message is formatted from                             *)
(***************************************************************************)
NoResp == [status |-> 0, kind |-> "none", ye |-> Absent, ps |-> 0,
           exc |-> "none", arg |-> "none"]
Success(ye, ps) == [status |-> 200, kind |-> "success", ye |-> ye, ps |-> ps,
                    exc |-> "none", arg |-> "none"]
ErrorResp(kind, exc, arg) == [status |-> 400, kind |-> kind, ye |-> Absent, ps |-> 0,
                              exc |-> exc, arg |-> arg]

(***************************************************************************)
(* The frame of one execution of predict(): its locals, the exception in   *)
(* flight, the response returned, and the capabilities it has invoked.     *)
(***************************************************************************)
NewFrame(payload) ==
  [pc |-> "get_json", payload |-> payload, data |-> Elem("absent", Absent),
   experience |-> Absent, arr |-> FloatArr(<<>>), prediction |-> NoPrediction,
   exc |-> "none", arg |-> "none", resp |-> NoResp, calls |-> <<>>]

Throw(f, exc, arg) == [f EXCEPT !.pc = "except", !.exc = exc, !.arg = arg]
Return(f, r) == [f EXCEPT !.pc = "done", !.resp = r]

(***************************************************************************)
(* src/PLR/app.py, predict().                                              *)
(***************************************************************************)
\* data = request.get_json(); if data is None: return error, 400
PlrGetJson(f) ==
  CASE f.payload.t = "bad" -> Throw(f, "HTTPException", "get_json")
    [] f.payload.t = "none" -> Return(f, ErrorResp("nojson", "none", "none"))
    [] OTHER -> [f EXCEPT !.pc = "unwrap", !.data = Elem(f.payload.t, f.payload.ye)]

\* Variant: data = data['data'][-1]
PlrUnwrapLast(f) ==
  IF f.payload.t # "map" THEN Throw(f, "TypeError", "in")
  ELSE IF f.payload.data.t = "list" /\ Len(f.payload.data.items) > 0
       THEN [f EXCEPT !.pc = "float",
                      !.data = f.payload.data.items[Len(f.payload.data.items)]]
       ELSE [f EXCEPT !.pc = "float"]

\* if 'data' in data and isinstance(data['data'], list) and len(data['data']) > 0:
\*     data = data['data'][0]
PlrUnwrap(f) ==
  IF f.payload.t # "map" THEN Throw(f, "TypeError", "in")
  ELSE IF f.payload.data.t = "list" /\ Len(f.payload.data.items) > 0
       THEN [f EXCEPT !.pc = "float", !.data = f.payload.data.items[1]]
       ELSE [f EXCEPT !.pc = "float"]

\* Variant: experience = float(data.get('YearsExperience', 0))
PlrFloatDefault(f) ==
  IF f.data.t # "map" THEN Throw(f, "TypeError", "subscript")
  ELSE LET r == PyFloat(IF f.data.ye = Absent THEN Num(0) ELSE f.data.ye)
       IN IF r.ok THEN [f EXCEPT !.pc = "transform", !.experience = Num(r.val)]
          ELSE Throw(f, r.exc, "float")

\* Variant: the endpoint rejects a negative experience as the form does.
PlrFloatNonNeg(f) ==
  IF f.data.t # "map" THEN Throw(f, "TypeError", "subscript")
  ELSE IF f.data.ye = Absent THEN Throw(f, "KeyError", "YearsExperience")
  ELSE LET r == PyFloat(f.data.ye)
       IN IF ~r.ok THEN Throw(f, r.exc, "float")
          ELSE IF r.val < 0 THEN Throw(f, "ValueError", "negative")
          ELSE [f EXCEPT !.pc = "transform", !.experience = Num(r.val)]

\* experience = float(data['YearsExperience'])
PlrFloat(f) ==
  IF f.data.t # "map" THEN Throw(f, "TypeError", "subscript")
  ELSE IF f.data.ye = Absent THEN Throw(f, "KeyError", "YearsExperience")
  ELSE LET r == PyFloat(f.data.ye)
       IN IF r.ok THEN [f EXCEPT !.pc = "transform", !.experience = Num(r.val)]
          ELSE Throw(f, r.exc, "float")

\* input_arr = np.array([[experience]], dtype=float)
\* experience_poly = poly.transform(input_arr)
PlrTransform(f, p) ==
  LET r == Transform(p, FloatArr(<<f.experience.v>>))
      g == [f EXCEPT !.calls = Append(f.calls, "transform")]
  IN IF r.ok THEN [g EXCEPT !.pc = "predict", !.arr = r.val]
     ELSE Throw(g, r.exc, "transform")

\* prediction = model.predict(experience_poly)[0]
PlrPredict(f, m) ==
  LET r == ModelPredict(m, f.arr)
      g == [f EXCEPT !.calls = Append(f.calls, "predict")]
  IN IF r.ok THEN [g EXCEPT !.pc = "respond", !.prediction = r.val]
     ELSE Throw(g, r.exc, "predict")

\* Variant: the response echoes data['YearsExperience'] as received.
PlrRespondRaw(f) ==
  LET r == NpFloat(f.prediction)
  IN IF r.ok THEN Return(f, Success(f.data.ye, r.val))
     ELSE Throw(f, r.exc, "coerce")

\* return jsonify({'YearsExperience': experience,
\*                 'PredictedSalary': float(prediction)})
PlrRespond(f) ==
  LET r == NpFloat(f.prediction)
  IN IF r.ok THEN Return(f, Success(f.experience, r.val))
     ELSE Throw(f, r.exc, "coerce")

\* Variant: no except Exception clause; the framework answers 500.
PlrExceptNarrow(f) ==
  CASE f.exc = "KeyError" -> Return(f, ErrorResp("missing", f.exc, f.arg))
    [] f.exc = "ValueError" -> Return(f, ErrorResp("invalid", f.exc, f.arg))
    [] OTHER -> Return(f, [ErrorResp("unhandled", f.exc, f.arg) EXCEPT !.status = 500])

\* except KeyError / except ValueError / except Exception, each with 400
PlrExcept(f) ==
  CASE f.exc = "KeyError" -> Return(f, ErrorResp("missing", f.exc, f.arg))
    [] f.exc = "ValueError" -> Return(f, ErrorResp("invalid", f.exc, f.arg))
    [] OTHER -> Return(f, ErrorResp("error", f.exc, f.arg))

\* One statement of predict() in the frame f.
PlrStep(f, p, m) ==
  CASE f.pc = "get_json" -> PlrGetJson(f)
    [] f.pc = "unwrap" -> PlrUnwrap(f)
    [] f.pc = "float" -> PlrFloat(f)
    [] f.pc = "transform" -> PlrTransform(f, p)
    [] f.pc = "predict" -> PlrPredict(f, m)
    [] f.pc = "respond" -> PlrRespond(f)
    [] f.pc = "except" -> PlrExcept(f)
    [] OTHER -> f

(***************************************************************************)
(* src/app.py, predict().                                                  *)
(***************************************************************************)
\* data = request.get_json()
PlainGetJson(f) ==
  IF f.payload.t = "bad" THEN Throw(f, "HTTPException", "get_json")
  ELSE [f EXCEPT !.pc = "lookup", !.data = Elem(f.payload.t, f.payload.ye)]

\* experience = data['YearsExperience']
PlainLookup(f) ==
  IF f.data.t # "map" THEN Throw(f, "TypeError", "subscript")
  ELSE IF f.data.ye = Absent THEN Throw(f, "KeyError", "YearsExperience")
  ELSE [f EXCEPT !.pc = "predict", !.experience = f.data.ye]

\* input_data = np.array([[experience]])
\* prediction = model.predict(input_data)[0]
PlainPredict(f, m) ==
  LET a == NpArray(f.experience)
      r == ModelPredict(m, a)
      g == [f EXCEPT !.calls = Append(f.calls, "predict"), !.arr = a]
  IN IF r.ok THEN [g EXCEPT !.pc = "respond", !.prediction = r.val]
     ELSE Throw(g, r.exc, "predict")

\* return jsonify({'YearsExperience': experience,
\*                 'PredictedSalary': float(prediction)})
PlainRespond(f) ==
  LET r == NpFloat(f.prediction)
  IN IF r.ok THEN Return(f, Success(f.experience, r.val))
     ELSE Throw(f, r.exc, "coerce")

\* except Exception as e: return error, 400
PlainExcept(f) == Return(f, ErrorResp("error_plain", f.exc, f.arg))

PlainStep(f, m) ==
  CASE f.pc = "get_json" -> PlainGetJson(f)
    [] f.pc = "lookup" -> PlainLookup(f)
    [] f.pc = "predict" -> PlainPredict(f, m)
    [] f.pc = "respond" -> PlainRespond(f)
    [] f.pc = "except" -> PlainExcept(f)
    [] OTHER -> f

\* One statement of the predict() of the application a.
Step(a, f, p, m) == IF a = "plr" THEN PlrStep(f, p, m) ELSE PlainStep(f, m)

\* predict() run from its first statement to its return.
RECURSIVE RunFrame(_, _, _, _)
RunFrame(a, f, p, m) ==
  IF f.pc = "done" THEN f ELSE RunFrame(a, Step(a, f, p, m), p, m)

predict(a, payload, p, m) == RunFrame(a, NewFrame(payload), p, m)

(***************************************************************************)
(* src/PLR/app_ui.py, SalaryPredictorUI.                                   *)
(***************************************************************************)
\* The text of the entry after strip(): empty, or known by what float()
\* makes of it.
EmptyText == [t |-> "empty", v |-> 0]

Label(text, v) == [text |-> text, v |-> v]
NoLabel == Label("none", 0)
\* "$0.00" is also what a prediction of 0 is formatted to.
Money(v) == Label("money", v)

Labels(salary, status, cs, pr) ==
  [salary |-> salary, status |-> status, calls |-> cs, prediction |-> pr]

\* The two except clauses of on_experience_change.
UiExcept(exc, cs, pr) ==
  IF exc = "ValueError"
  THEN Labels(Label("Invalid", 0), Label("Please enter a valid number", 0), cs, pr)
  ELSE Labels(Label("Error", 0), Label("Prediction error", 0), cs, pr)

on_experience_change(text, p, m) ==
  IF text = EmptyText
  THEN Labels(Money(0), Label("Enter experience to see prediction", 0), <<>>, NoPrediction)
  ELSE LET e == PyFloat(text)
       IN IF ~e.ok THEN UiExcept(e.exc, <<>>, NoPrediction)
          ELSE IF e.val < 0
          THEN Labels(Label("Invalid", 0), Label("Experience cannot be negative", 0),
                      <<>>, NoPrediction)
          ELSE LET x == Transform(p, FloatArr(<<e.val>>))
               IN IF ~x.ok THEN UiExcept(x.exc, <<"transform">>, NoPrediction)
                  ELSE LET y == ModelPredict(m, x.val)
                       IN IF ~y.ok
                          THEN UiExcept(y.exc, <<"transform", "predict">>, NoPrediction)
                          ELSE LET z == NpFloat(y.val)
                               IN IF ~z.ok
                                  THEN UiExcept(z.exc, <<"transform", "predict">>, y.val)
                                  ELSE Labels(Money(z.val), Label("Experience", e.val),
                                              <<"transform", "predict">>, y.val)

(***************************************************************************)
(* Inputs.                                                                 *)
(***************************************************************************)
\* Feature values: negative, zero, small, two whose squares overflow, and
\* the largest finite value.
Feats == {-5, -2, 0, 1, 2, 5, FloatMax}
NonFinite == {NaN, PInf, NInf}

TopValues ==
  {Num(v) : v \in Feats \cup NonFinite}
  \cup {Str(v) : v \in {2, -2, NaN, Unparsable}}
  \cup {Null, List, Absent}

ElemValues == {Absent, Num(1), Num(5), Num(-2), Num(NaN), Str(Unparsable), Null}
Elems == {Elem("scalar", Absent)} \cup {Elem("map", v) : v \in ElemValues}
ItemLists == UNION {[1..n -> Elems] : n \in 1..MaxItems}

Payloads ==
  {Payload("bad", Absent, NoData), Payload("none", Absent, NoData),
   Payload("scalar", Absent, NoData)}
  \cup {Payload("map", ye, d) :
          ye \in TopValues, d \in {NoData, NonListData, ListData(<<>>)}}
  \cup {Payload("map", ye, ListData(l)) : ye \in {Absent, Num(2)}, l \in ItemLists}

Texts == {EmptyText} \cup {Str(v) : v \in Feats \cup NonFinite \cup {NInf + 1, Unparsable}}

Apps == {"plain", "plr", "ui"}

(***************************************************************************)
(* Startup: the module-level loading of the pickles.                       *)
(***************************************************************************)
LoadErrors == {"FileNotFoundError", "UnpicklingError"}

\* Variant: the failure is swallowed and startup goes on.
OnLoadErrorContinue(a, e, next) == next

\* What follows a pickle that cannot be loaded: src/app.py calls exit(),
\* src/PLR/app.py re-raises, src/PLR/app_ui.py calls sys.exit(1); any other
\* exception is caught by nothing (app.py) or also exits (app_ui.py).
OnLoadError(a, e, next) == "exited"

IdleFrame == [NewFrame(NoPayload) EXCEPT !.pc = "idle"]

Init ==
  /\ app \in Apps
  /\ phase = "load_model"
  /\ model = NoArtifact
  /\ poly = NoArtifact
  /\ req = NoPayload
  /\ resp = NoResp
  /\ calls = <<>>
  /\ prediction = NoPrediction
  /\ nfail = 0
  /\ experience_var = EmptyText
  /\ salary_label = NoLabel
  /\ status_label = NoLabel
  /\ frames = [i \in 1..NReq |-> IdleFrame]

\* with open('model.pkl' / 'poly_reg_model.pkl', 'rb'): model = pickle.load(file)
LoadModel ==
  /\ phase = "load_model"
  /\ LET next == IF app = "plain" THEN "serving" ELSE "load_poly"
     IN \/ \E e \in LoadErrors :
             /\ phase' = OnLoadError(app, e, next)
             /\ model' = model
        \/ \E o \in ModelArtifacts :
             /\ phase' = next
             /\ model' = o
  /\ UNCHANGED <<app, poly, req, resp, calls, prediction, nfail, experience_var,
                 salary_label, status_label, frames>>

\* with open('poly_features.pkl', 'rb'): poly = pickle.load(file); in the
\* form, SalaryPredictorUI.__init__ then builds the labels.
LoadPoly ==
  /\ phase = "load_poly"
  /\ \/ \E e \in LoadErrors :
          /\ phase' = OnLoadError(app, e, "serving")
          /\ UNCHANGED <<poly, salary_label, status_label>>
     \/ \E o \in PolyArtifacts :
          /\ phase' = "serving"
          /\ poly' = o
          /\ IF app = "ui"
             THEN /\ salary_label' = Money(0)
                  /\ status_label' = Label("Enter experience to see prediction", 0)
             ELSE UNCHANGED <<salary_label, status_label>>
  /\ UNCHANGED <<app, model, req, resp, calls, prediction, nfail, experience_var, frames>>

(***************************************************************************)
(* Requests, one at a time: POST /predict is answered, and the client      *)
(* takes the response.                                                     *)
(***************************************************************************)
Predict ==
  /\ phase = "serving"
  /\ app \in {"plain", "plr"}
  /\ req = NoPayload
  /\ \E payload \in Payloads :
       LET f == predict(app, payload, poly, model)
       IN /\ req' = payload
          /\ resp' = f.resp
          /\ calls' = f.calls
          /\ prediction' = f.prediction
          /\ nfail' = IF f.resp.kind = "success" \/ nfail = MaxFail
                      THEN nfail ELSE nfail + 1
  /\ UNCHANGED <<app, phase, model, poly, experience_var, salary_label,
                 status_label, frames>>

Deliver ==
  /\ req # NoPayload
  /\ req' = NoPayload
  /\ resp' = NoResp
  /\ calls' = <<>>
  /\ prediction' = NoPrediction
  /\ UNCHANGED <<app, phase, model, poly, nfail, experience_var, salary_label,
                 status_label, frames>>

(***************************************************************************)
(* The form: a write of the entry's variable runs the trace callback.      *)
(***************************************************************************)
OnExperienceChange ==
  /\ phase = "serving"
  /\ app = "ui"
  /\ \E text \in Texts :
       LET l == on_experience_change(text, poly, model)
       IN /\ experience_var' = text
          /\ salary_label' = l.salary
          /\ status_label' = l.status
          /\ calls' = l.calls
          /\ prediction' = l.prediction
  /\ UNCHANGED <<app, phase, model, poly, req, resp, nfail, frames>>

\* reset_form: experience_var.set("") runs the callback, then the labels are
\* set again.
reset_form ==
  /\ phase = "serving"
  /\ app = "ui"
  /\ experience_var' = EmptyText
  /\ calls' = on_experience_change(EmptyText, poly, model).calls
  /\ prediction' = on_experience_change(EmptyText, poly, model).prediction
  /\ salary_label' = Money(0)
  /\ status_label' = Label("Enter experience to see prediction", 0)
  /\ UNCHANGED <<app, phase, model, poly, req, resp, nfail, frames>>

Next == LoadModel \/ LoadPoly \/ Predict \/ Deliver \/ OnExperienceChange \/ reset_form

Spec == Init /\ [][Next]_vars

(***************************************************************************)
(* Requests executing concurrently: the server runs predict() in several   *)
(* threads, which interleave between statements.  Each thread has its own  *)
(* frame; model and poly are the module globals all of them read.          *)
(***************************************************************************)
PayloadsConc ==
  {Payload("none", Absent, NoData),
   Payload("map", Absent, NoData),
   Payload("map", Num(1), NoData),
   Payload("map", Num(-2), NoData),
   Payload("map", Str(Unparsable), NoData),
   Payload("map", Absent, ListData(<<Elem("map", Num(2)), Elem("map", Num(1))>>))}

\* Variant: `experience` is a module global, written by every thread.
ExecStepShared(a, fs, i, p, m) ==
  LET g == Step(a, fs[i], p, m)
  IN [j \in DOMAIN fs |->
        IF j = i THEN g ELSE [fs[j] EXCEPT !.experience = g.experience]]

\* The frames after thread i runs its next statement.
ExecStep(a, fs, i, p, m) == [fs EXCEPT ![i] = Step(a, fs[i], p, m)]

InitConc == Init /\ app \in {"plain", "plr"}

Accept(i) ==
  /\ phase = "serving"
  /\ frames[i].pc = "idle"
  /\ \E payload \in PayloadsConc : frames' = [frames EXCEPT ![i] = NewFrame(payload)]
  /\ UNCHANGED <<app, phase, model, poly, req, resp, calls, prediction, nfail,
                 experience_var, salary_label, status_label>>

Exec(i) ==
  /\ frames[i].pc \notin {"idle", "done"}
  /\ frames' = ExecStep(app, frames, i, poly, model)
  /\ UNCHANGED <<app, phase, model, poly, req, resp, calls, prediction, nfail,
                 experience_var, salary_label, status_label>>

Finish(i) ==
  /\ frames[i].pc = "done"
  /\ frames' = [frames EXCEPT ![i] = IdleFrame]
  /\ UNCHANGED <<app, phase, model, poly, req, resp, calls, prediction, nfail,
                 experience_var, salary_label, status_label>>

NextConc ==
  \/ LoadModel
  \/ LoadPoly
  \/ \E i \in 1..NReq : Accept(i)
  \/ \E i \in 1..NReq : Exec(i)
  \/ \E i \in 1..NReq : Finish(i)

SpecConc == InitConc /\ [][NextConc]_vars

(***************************************************************************)
(* Properties.                                                             *)
(***************************************************************************)
\* A request has been answered and its response not yet taken.
Answered == app \in {"plain", "plr"} /\ req # NoPayload

\* The payload the key is looked up in: the first element of a non-empty
\* "data" list on the polynomial endpoint, the payload itself otherwise.
Unwrapped(a, payload) ==
  IF a = "plr" /\ payload.t = "map" /\ payload.data.t = "list"
     /\ Len(payload.data.items) > 0
  THEN payload.data.items[1]
  ELSE Elem(payload.t, payload.ye)

\* The value parses as a finite real number: a finite number or, where the
\* endpoint parses (src/PLR/app.py), a string of one.
ParsesFinite(a, v) ==
  /\ v.t \in (IF a = "plr" THEN {"num", "str"} ELSE {"num"})
  /\ IsFinite(v.v)

HasFeature ==
  /\ Answered
  /\ Unwrapped(app, req).t = "map"
  /\ ParsesFinite(app, Unwrapped(app, req).ye)

Feature == Unwrapped(app, req).ye.v

\* The transform of the single-row, single-column vector [x]; [x] itself in
\* plain-regression mode.
Expanded(x) ==
  IF app = "plr" THEN Transform(poly, FloatArr(<<x>>)) ELSE Ok(FloatArr(<<x>>))

\* The first output of the model applied to it.
Predicted(x) == ModelPredict(model, Expanded(x).val)

\* Neither capability raises on [x] and the output converts to a float.
CapsOk(x) ==
  /\ Expanded(x).ok
  /\ Predicted(x).ok
  /\ NpFloat(Predicted(x).val).ok

\* The artifacts fit each other and the endpoint: a transformer fitted on
\* one feature, a single-target model as wide as the vector it is given.
WellFormed ==
  /\ model \in ModelArtifacts
  /\ model.targets = 1
  /\ IF app = "plain" THEN Len(model.coef) = 1
     ELSE /\ poly \in PolyArtifacts
          /\ poly.n_in = 1
          /\ Len(model.coef) = poly.degree + 1

ErrorKinds == {"nojson", "missing", "invalid", "error", "error_plain"}

----------------------------------------------------------------------------
----------------------------------------------------------------------------
----------------------------------------------------------------------------
\* A value normalization must refuse: a non-numeric string, null, or a
\* number or string that is NaN or an infinity.
Refused(v) ==
  \/ v = Str(Unparsable)
  \/ v = Null
  \/ v.t \in {"num", "str"} /\ v.v \in NonFinite

\* C3: on the polynomial endpoint a YearsExperience value that is a
\* non-numeric string, null or non-finite is answered with the InvalidValue
\* error and a client-error status, never with the MissingField error, the
\* catch-all error or a success.
C3_InvalidValue ==
  (Answered /\ app = "plr" /\ Unwrapped(app, req).t = "map"
     /\ Refused(Unwrapped(app, req).ye)) =>
    /\ resp.kind = "invalid"
    /\ resp.status = 400

----------------------------------------------------------------------------
AllMappings(items) == \A i \in 1..Len(items) : items[i].t = "map"

\* C4: a payload whose "data" value is a non-empty list of mappings is
\* answered exactly as the payload consisting of the first element alone:
\* the same response and the same capabilities invoked; the later elements
\* and the rest of the payload have no effect.
C4_FirstElementAlone ==
  (Answered /\ app = "plr" /\ req.t = "map" /\ req.data.t = "list"
     /\ Len(req.data.items) > 0 /\ AllMappings(req.data.items)) =>
    LET first == req.data.items[1]
        alone == predict("plr", Payload("map", first.ye, NoData), poly, model)
    IN /\ resp = alone.resp
       /\ calls = alone.calls
       /\ resp.kind = "success" => resp.ye.v = first.ye.v

\* Three different features in the payload; the first element's is used.
C4_Witness ==
  /\ app = "plr"
  /\ req.ye = Num(2)
  /\ req.data.t = "list"
  /\ Len(req.data.items) = 2
  /\ req.data.items[1] = Elem("map", Num(1))
  /\ req.data.items[2] = Elem("map", Num(-2))
  /\ resp.kind = "success"
  /\ resp.ye = Num(1)

----------------------------------------------------------------------------
\* C5: every request, whatever its payload, ends in one response that is a
\* success or an error body with a client-error status; the process keeps
\* serving; and however many requests failed before, a request with a
\* feature the capabilities accept is answered with a success.
C5_AlwaysOneResponse ==
  /\ req # NoPayload =>
       /\ phase = "serving"
       /\ \/ resp.kind = "success" /\ resp.status = 200
          \/ resp.kind \in ErrorKinds /\ resp.status = 400
  /\ (HasFeature /\ CapsOk(Feature)) => resp.kind = "success"

\* A success after the count of failed requests has saturated.
C5_Witness ==
  /\ Answered
  /\ nfail = MaxFail
  /\ resp.kind = "success"

----------------------------------------------------------------------------
\* C6: on the polynomial endpoint a failure of the transform on a
\* successfully normalized feature is reported by the catch-all error, never
\* as InvalidValue or MissingField.
C6_TransformErrorKind ==
  (HasFeature /\ app = "plr" /\ ~Transform(poly, FloatArr(<<Feature>>)).ok) =>
    /\ resp.status = 400
    /\ resp.kind = "error"

----------------------------------------------------------------------------
----------------------------------------------------------------------------
\* The text of the entry parses to a number below zero.
NegativeText ==
  /\ app = "ui"
  /\ phase = "serving"
  /\ experience_var.t = "str"
  /\ experience_var.v # Unparsable
  /\ experience_var.v < 0

FormRejectsNegative ==
  NegativeText =>
    /\ salary_label = Label("Invalid", 0)
    /\ status_label = Label("Experience cannot be negative", 0)
    /\ calls = <<>>

----------------------------------------------------------------------------
Loaded ==
  /\ model \in ModelArtifacts
  /\ app # "plain" => poly \in PolyArtifacts

\* Nothing has been handled: no request answered, no form change.
NothingHandled ==
  /\ req = NoPayload
  /\ resp = NoResp
  /\ calls = <<>>
  /\ nfail = 0
  /\ experience_var = EmptyText
  /\ prediction = NoPrediction

C9_Barrier ==
  /\ phase = "serving" => Loaded
  /\ phase # "serving" => NothingHandled
  /\ phase = "exited" => ~Loaded

C9_Once ==
  /\ phase = "exited" => phase' = "exited"
  /\ phase = "serving" => phase' = "serving"
  /\ model # NoArtifact => model' = model
  /\ poly # NoArtifact => poly' = poly

\* C9: the process serves only with every artifact it needs loaded, and has
\* handled nothing in any other phase; a load failure ends the process for
\* good and never becomes a response; an artifact once loaded is never
\* reloaded or reassigned.
C9_FailFastStartup == []C9_Barrier /\ [][C9_Once]_vars

\* The model was loaded and the transformer could not be.
C9_Witness ==
  /\ app = "plr"
  /\ phase = "exited"
  /\ model \in ModelArtifacts
  /\ poly = NoArtifact

----------------------------------------------------------------------------
\* C10: under every interleaving of concurrently executing requests, a
\* request's response is the one predict() returns for its payload when run
\* alone against the same model and transform; two requests with the same
\* payload therefore get identical responses.
C10_NoInterference ==
  \A i \in 1..NReq :
    frames[i].pc = "done" =>
      /\ frames[i].resp = predict(app, frames[i].payload, poly, model).resp
      /\ \A j \in 1..NReq :
           (frames[j].pc = "done" /\ frames[j].payload = frames[i].payload)
             => frames[j].resp = frames[i].resp

\* One request has finished with a success while another, with a different
\* feature, is between its statements.
C10_Witness ==
  /\ frames[1].pc = "done"
  /\ frames[1].resp.kind = "success"
  /\ frames[2].pc = "predict"
  /\ frames[2].experience # frames[1].experience
  /\ frames[2].experience # Absent

====
